---- MODULE Spec2Model ----
(***************************************************************************)
(* A model of src/cpu/aarch64/jit_uni_eltwise.cpp: the primitive           *)
(* descriptor's init(), the primitive's init(), the execution driver       *)
(* (execute(): one lambda per worker thread) and the program emitted by    *)
(* jit_uni_kernel_t::generate(), run by every worker on its partition.     *)
(*                                                                         *)
(* Memory and the Z registers are arrays of 16-bit half-words: an F32      *)
(* element or lane is the pair of half-words (low, high), so the 16-bit    *)
(* shifts and masks of the BF16/F16 paths are exact.  A predicate register *)
(* is the set of its set bits, one bit per byte of the vector, as in SVE:  *)
(* an element of size es in lane i is governed by bit es*i.                *)
(***************************************************************************)
EXTENDS Integers, Sequences, FiniteSets, TLC

\* ------------------------------------------------------------- bounds
MaxNelems == 34
MaxThr == 2
MaxVlenExp == 2
MaxOffset0 == 1
MaxTeam == 8

\* ---------------------------------------------------- program constants
\* const int simd_w = 64 / data_d.data_type_size();
GrainBytes == 64
\* the smallest SVE vector length in bytes (sve_128)
MinVlen == 16

\* a half-word holds 16 bits; bit 15 is the sign of a BF16/F16 value and of
\* the high half of an F32 value
H16 == 2 ^ 16
HSign == 2 ^ 15

Min(a, b) == IF a < b THEN a ELSE b

\* ------------------------------------------------------------ data types
dtype_size(dt) == IF dt = "f32" THEN 4 ELSE 2

\* template struct jit_uni_eltwise_{fwd,bwd}_t<sve_128, ...>
Instances ==
    { [is_fwd |-> TRUE, dt |-> "f32"], [is_fwd |-> TRUE, dt |-> "bf16"],
      [is_fwd |-> TRUE, dt |-> "f16"], [is_fwd |-> FALSE, dt |-> "f32"] }

Algs == {"eltwise_relu", "eltwise_logistic"}

\* get_sve_length(): a power-of-two multiple of 16 bytes
Vlens == { MinVlen * (2 ^ k) : k \in 0..MaxVlenExp }

NullPtr == [buf |-> "NULL", off |-> 0]

\* ------------------------------------------------- scalar floating point
\* An F32 value is <<lo, hi>>, its two half-words.  BF16 -> F32 is done by
\* the kernel with shifts; F32 -> BF16 (bfcvt, bfcvtnt) rounds to nearest
\* even on the dropped low half, leaving Inf/NaN patterns alone.
BfRound(v) ==
    LET lo == v[1]
        hi == v[2]
        up == (lo > HSign) \/ (lo = HSign /\ hi % 2 = 1)
    IN  IF (hi % HSign) >= 32640 THEN hi
        ELSE IF up THEN hi + 1 ELSE hi

\* fcvt .s <- .h : IEEE half to single (exact).  Subnormal halves are
\* flushed to a signed zero here.
H2S(h) ==
    LET s == h \div HSign
        e == (h \div 1024) % 32
        m == h % 1024
    IN  IF e = 0 THEN <<0, s * HSign>>
        ELSE IF e = 31 THEN <<(m % 8) * 8192, s * HSign + 255 * 128 + (m \div 8)>>
        ELSE <<(m % 8) * 8192, s * HSign + (e + 112) * 128 + (m \div 8)>>

\* fcvt .h <- .s : IEEE single to half, round to nearest even; results
\* below the normal half range are flushed to a signed zero, results above
\* it become infinity.
S2H(v) ==
    LET lo == v[1]
        hi == v[2]
        s == hi \div HSign
        e == (hi \div 128) % 256
        m10 == (hi % 128) * 8 + (lo \div 8192)
        rest == lo % 8192
        up == (rest > 4096) \/ (rest = 4096 /\ m10 % 2 = 1)
        mag == (e - 112) * 1024 + m10 + (IF up THEN 1 ELSE 0)
    IN  IF e = 255 THEN s * HSign + 31744 + (IF (hi % 128) = 0 /\ lo = 0 THEN 0 ELSE 512)
        ELSE IF e >= 143 THEN s * HSign + 31744
        ELSE IF e <= 112 THEN s * HSign
        ELSE s * HSign + Min(mag, 31744)

\* The element-wise injector is a black box that transforms every F32 lane
\* of a vector in place, lane by lane.  eltwise_relu (alpha = 0) is exact on
\* bit patterns; eltwise_logistic stands for the algorithms that do not map
\* 0 to 0 and is a fixed mixing of the lane's bits.  In the backward
\* direction the injector emits the derivative, in terms of the forward
\* output when use_dst is set.
InjScalar(alg, is_fwd, use_dst, v) ==
    LET lo == v[1]
        hi == v[2]
    IN  IF alg = "eltwise_relu"
        THEN IF is_fwd
             THEN IF hi >= HSign THEN <<0, 0>> ELSE v
             ELSE IF hi >= HSign \/ (hi = 0 /\ lo = 0) THEN <<0, 0>> ELSE <<0, 16256>>
        ELSE IF is_fwd
             THEN <<(lo + 7 * hi + 1) % H16, (3 * hi + lo + 15360) % H16>>
             ELSE IF use_dst
                  THEN <<(5 * lo + hi + 3) % H16, (hi + 2 * lo + 11) % H16>>
                  ELSE <<(3 * lo + hi + 5) % H16, (5 * hi + lo + 13) % H16>>

\* fmul on one F32 lane: an uninterpreted commutative product
FMulScalar(a, b) ==
    <<(a[1] + b[1] + 1) % H16, (a[2] + b[2] + (a[1] + b[1]) \div H16) % H16>>

RECURSIVE Or16(_, _, _)
Or16(a, b, n) ==
    IF n = 0 \/ (a = 0 /\ b = 0) THEN 0
    ELSE (IF a % 2 = 1 \/ b % 2 = 1 THEN 1 ELSE 0) + 2 * Or16(a \div 2, b \div 2, n - 1)

\* ------------------------------------------------- predicates, registers
\* ptrue(pg.<T>): every element of size es is active
PTrue(vlen, es) == { es * i : i \in 0..(vlen \div es - 1) }

\* faulty variant: whilele, the elements i with 0 + i <= n
WhileLe(vlen, es, n) == { es * i : i \in { j \in 0..(vlen \div es - 1) : j <= n } }

\* whilelt(pg.<T>, 0, n): the elements i with 0 + i < n (signed compare)
WhileLt(vlen, es, n) == { es * i : i \in { j \in 0..(vlen \div es - 1) : j < n } }

\* lane i of element size es is active under the governing predicate pg
Active(pg, es, i) == (es * i) \in pg

HLanes(vlen) == 0..(vlen \div 2 - 1)

SLaneOf(z, i) == <<z[2 * i], z[2 * i + 1]>>

\* a memory read outside the tensor yields an unknown pattern
Poison == 2 ^ 16 - 1

RdMem(m, i) == IF i \in DOMAIN m THEN m[i] ELSE Poison

\* ld1w / ld1h (pg/Z): active elements are loaded from the half-words at
\* hw0 on, inactive elements are set to zero
Ld1(vlen, es, pg, m, hw0) ==
    [k \in HLanes(vlen) |->
        IF Active(pg, es, k \div (es \div 2)) THEN RdMem(m, hw0 + k) ELSE 0]

\* st1w / st1h: active elements are stored, inactive ones leave memory alone
St1(vlen, es, pg, z, m, hw0) ==
    [i \in DOMAIN m |->
        IF (i - hw0) \in HLanes(vlen) /\ Active(pg, es, (i - hw0) \div (es \div 2))
        THEN z[i - hw0] ELSE m[i]]

\* the element indices a predicated access at element index e0 touches
Touched(vlen, es, pg, e0) ==
    { e0 + i : i \in { j \in 0..(vlen \div es - 1) : Active(pg, es, j) } }

\* mov(zd.s, pg, zn.s): merging move of the active 32-bit lanes
MovS(vlen, zd, pg, zn) ==
    [k \in HLanes(vlen) |-> IF Active(pg, 4, k \div 2) THEN zn[k] ELSE zd[k]]

\* lsl(z.s, z.s, 16)
LslS16(vlen, z) ==
    [k \in HLanes(vlen) |-> IF k % 2 = 0 THEN 0 ELSE z[k - 1]]

\* lsr(z.s, z.s, 16)
LsrS16(vlen, z) ==
    [k \in HLanes(vlen) |-> IF k % 2 = 0 THEN z[k + 1] ELSE 0]

\* and_(z.s, 0xFFFF0000)
AndHiS(vlen, z) ==
    [k \in HLanes(vlen) |-> IF k % 2 = 0 THEN 0 ELSE z[k]]

\* bfcvt(zd.h, pg, zn.s): each active 32-bit lane is narrowed to BF16 in its
\* low half, the high half zeroed; inactive lanes of zd are unchanged
Bfcvt(vlen, zd, pg, zn) ==
    [k \in HLanes(vlen) |->
        IF Active(pg, 4, k \div 2)
        THEN IF k % 2 = 0 THEN BfRound(SLaneOf(zn, k \div 2)) ELSE 0
        ELSE zd[k]]

\* faulty variant: bfcvt where bfcvtnt is meant
BfcvtntAsBfcvt(vlen, zd, pg, zn) == Bfcvt(vlen, zd, pg, zn)

\* bfcvtnt(zd.h, pg, zn.s): each active 32-bit lane is narrowed to BF16 into
\* the odd (top) half of the lane of zd, the even half left unchanged
Bfcvtnt(vlen, zd, pg, zn) ==
    [k \in HLanes(vlen) |->
        IF Active(pg, 4, k \div 2) /\ k % 2 = 1
        THEN BfRound(SLaneOf(zn, k \div 2)) ELSE zd[k]]

\* fcvt(zd.s, pg, zn.h): the low half of each active 32-bit lane is widened
FcvtH2S(vlen, zd, pg, zn) ==
    [k \in HLanes(vlen) |->
        IF Active(pg, 4, k \div 2)
        THEN H2S(zn[2 * (k \div 2)])[1 + (k % 2)] ELSE zd[k]]

\* fcvt(zd.h, pg, zn.s): each active 32-bit lane is narrowed to F16 in its
\* low half, the high half zeroed
FcvtS2H(vlen, zd, pg, zn) ==
    [k \in HLanes(vlen) |->
        IF Active(pg, 4, k \div 2)
        THEN IF k % 2 = 0 THEN S2H(SLaneOf(zn, k \div 2)) ELSE 0
        ELSE zd[k]]

\* orr(zdn.h, pg, zm.h): bitwise or of the active half-word lanes
OrrH(vlen, zdn, pg, zm) ==
    [k \in HLanes(vlen) |->
        IF Active(pg, 2, k) THEN Or16(zdn[k], zm[k], 16) ELSE zdn[k]]

\* fmul(zd.s, zd.s, zm.s): unpredicated, every 32-bit lane
FMul(vlen, zd, zm) ==
    [k \in HLanes(vlen) |->
        FMulScalar(SLaneOf(zd, k \div 2), SLaneOf(zm, k \div 2))[1 + (k % 2)]]

\* eltwise_injector_->compute_vector(idx): every 32-bit lane of the register
\* is transformed in place
compute_vector(vlen, alg, is_fwd, use_dst, z) ==
    [k \in HLanes(vlen) |->
        InjScalar(alg, is_fwd, use_dst, SLaneOf(z, k \div 2))[1 + (k % 2)]]

\* ---------------------------------------------------------------- state
VARIABLES
    pd,     \* the primitive descriptor: init()'s inputs and returned status
    prim,   \* the primitive: kernel_ and init()'s returned status
    cfg,    \* what execute() reads from pd() and ctx, fixed during a call
    mem,    \* the tensors, one half-word array per buffer
    thr,    \* per worker thread: the lambda's locals and the kernel's registers
    hist    \* per worker thread: what it has done so far (history)

vars == <<pd, prim, cfg, mem, thr, hist>>

Threads == 0..(cfg.nthr - 1)

\* int vlen() / int simd_w()
vlen(c) == c.vlen
\* faulty variant: the lanes of a 32-bit vector whatever the element type
simd_w_words(c) == vlen(c) \div 4

simd_w(c) == vlen(c) \div dtype_size(c.dt)

is_half(c) == c.dt = "bf16" \/ c.dt = "f16"

\* ------------------------------------------------------------ the tensors
\* CTX_IN_MEM / CTX_OUT_MEM: the buffer each argument resolves to.  The
\* output may be the same buffer as the input it is allowed to alias.
ValueBuf(c) == IF c.is_fwd THEN "SRC" ELSE IF c.use_dst THEN "DST" ELSE "SRC"
DiffDstBuf(c) == "DIFF_DST"
OutBuf(c) ==
    IF c.is_fwd THEN (IF c.alias THEN "SRC" ELSE "DST")
    ELSE (IF c.alias THEN "DIFF_DST" ELSE "DIFF_SRC")

Buffers == {"SRC", "DST", "DIFF_DST", "DIFF_SRC"}

\* half-words of a tensor of offset0 + nelems elements
HwCount(c) == ((c.offset0 + c.nelems) * dtype_size(c.dt)) \div 2

InputHw(buf, k) ==
    IF buf = "DIFF_DST" THEN (k * 4099 + 16507) % H16 ELSE (k * 8209 + 15361) % H16

\* what an output buffer holds before the call
Fill == H16 - 21846

InitMem(c) ==
    [b \in Buffers |->
        IF b = ValueBuf(c) \/ (~c.is_fwd /\ b = DiffDstBuf(c))
        THEN [k \in 0..(HwCount(c) - 1) |-> InputHw(b, k)]
        ELSE IF b = OutBuf(c)
        THEN [k \in 0..(HwCount(c) - 1) |-> Fill]
        ELSE [k \in {} |-> 0]]

\* number of half-words a buffer holds
HwLen(m) == Cardinality(DOMAIN m)

\* element i (counted from the tensor's offset0) of a half-word array
Elem(c, m, i) ==
    IF c.dt = "f32"
    THEN <<RdMem(m, 2 * (c.offset0 + i)), RdMem(m, 2 * (c.offset0 + i) + 1)>>
    ELSE RdMem(m, c.offset0 + i)

\* ------------------------------------------------------------ the kernel
\* The registers of one kernel call are the fields reg_src, reg_dst,
\* reg_diff_dst, reg_work_amount, pg_s, pg_h, vmm_src and tmp0 of a thread's
\* record (vmm_diff_dst is the same Z register as tmp0); pc is the place the
\* call has reached: "load" at vectorized_loop_start, "mul" before the
\* backward multiply, "store" before the store, "done" after the postamble.
\* A pointer is a buffer and a byte offset into it; reg_work_amount is a
\* 64-bit register compared as a signed number (b.LT, b.GE, b.LE).

PtrAdd(p, bytes) == [p EXCEPT !.off = @ + bytes]

\* faulty variant: b(LT, vectorized_loop_end) instead of b(LE, ...)
TailPredicationLT(c, k) ==
    IF k.reg_work_amount < 0
    THEN [k EXCEPT !.pc = "done"]
    ELSE [k EXCEPT !.pg_s = WhileLt(vlen(c), 4, k.reg_work_amount),
                   !.pg_h = IF is_half(c)
                            THEN WhileLt(vlen(c), 2, k.reg_work_amount)
                            ELSE @,
                   !.pc = "load"]

\* faulty variant: the tail re-enters the body without narrowing the predicates
TailPredicationAllTrue(c, k) ==
    IF k.reg_work_amount <= 0
    THEN [k EXCEPT !.pc = "done"]
    ELSE [k EXCEPT !.pc = "load"]

\* faulty variant: pg_s is narrowed with half the count (the whole 32-bit
\* lanes the remaining elements fill)
TailPredicationPgSFloor(c, k) ==
    IF k.reg_work_amount <= 0
    THEN [k EXCEPT !.pc = "done"]
    ELSE [k EXCEPT !.pg_s = WhileLt(vlen(c), 4, IF is_half(c)
                                                THEN k.reg_work_amount \div 2
                                                ELSE k.reg_work_amount),
                   !.pg_h = IF is_half(c)
                            THEN WhileLt(vlen(c), 2, k.reg_work_amount)
                            ELSE @,
                   !.pc = "load"]

\* L(tail_predication) ... b(vectorized_loop_start) / L(vectorized_loop_end)
TailPredication(c, k) ==
    IF k.reg_work_amount <= 0
    THEN [k EXCEPT !.pc = "done"]
    ELSE [k EXCEPT !.pg_s = WhileLt(vlen(c), 4, k.reg_work_amount),
                   !.pg_h = IF is_half(c)
                            THEN WhileLt(vlen(c), 2, k.reg_work_amount)
                            ELSE @,
                   !.pc = "load"]

\* faulty variant: ldr(reg_diff_dst, ...) is emitted in the forward kernel too
KernelEntryLoadsDiffDst(c, k, args, junk) ==
    LET k1 == [k EXCEPT !.reg_src = args.src,
                        !.reg_dst = args.dst,
                        !.reg_diff_dst = args.diff_dst,
                        !.reg_work_amount = args.work_amount,
                        !.pg_s = PTrue(vlen(c), 4),
                        !.pg_h = PTrue(vlen(c), 2),
                        !.vmm_src = [i \in HLanes(vlen(c)) |-> junk],
                        !.tmp0 = IF is_half(c) \/ ~c.is_fwd
                                 THEN [i \in HLanes(vlen(c)) |-> junk] ELSE @]
    IN  IF k1.reg_work_amount < simd_w(c)
        THEN TailPredication(c, k1)
        ELSE [k1 EXCEPT !.pc = "load"]

\* preamble ... cmp(reg_work_amount, simd_w()); b(LT, tail_predication).
\* vmm_src and tmp0 hold whatever the caller left in them (junk); the F32
\* forward kernel never names tmp0, which is then left out of the state; in
\* the forward kernel reg_diff_dst is never loaded.
KernelEntry(c, k, args, junk) ==
    LET k1 == [k EXCEPT !.reg_src = args.src,
                        !.reg_dst = args.dst,
                        !.reg_diff_dst = IF ~c.is_fwd THEN args.diff_dst
                                         ELSE [buf |-> "UNSET", off |-> 0],
                        !.reg_work_amount = args.work_amount,
                        !.pg_s = PTrue(vlen(c), 4),
                        !.pg_h = PTrue(vlen(c), 2),
                        !.vmm_src = [i \in HLanes(vlen(c)) |-> junk],
                        !.tmp0 = IF is_half(c) \/ ~c.is_fwd
                                 THEN [i \in HLanes(vlen(c)) |-> junk] ELSE @]
    IN  IF k1.reg_work_amount < simd_w(c)
        THEN TailPredication(c, k1)
        ELSE [k1 EXCEPT !.pc = "load"]

\* if (is_bf16()) { ld1h ... bfcvtnt }: the registers before st1h
BodyBf16(c, k, m) ==
    LET vl == vlen(c)
        v1 == Ld1(vl, 2, k.pg_h, m, k.reg_src.off \div 2)
        t1 == MovS(vl, k.tmp0, k.pg_s, v1)
        v2 == LslS16(vl, v1)
        t2 == AndHiS(vl, t1)
        v3 == compute_vector(vl, c.alg, c.is_fwd, c.use_dst, v2)
        t3 == compute_vector(vl, c.alg, c.is_fwd, c.use_dst, t2)
        v4 == Bfcvt(vl, v3, k.pg_h, v3)
        v5 == Bfcvtnt(vl, v4, k.pg_h, t3)
    IN  [k EXCEPT !.vmm_src = v5, !.tmp0 = t3]

\* else if (is_f16()) { ld1h ... orr }: the registers before st1h
BodyF16(c, k, m) ==
    LET vl == vlen(c)
        v1 == Ld1(vl, 2, k.pg_h, m, k.reg_src.off \div 2)
        t1 == MovS(vl, k.tmp0, k.pg_s, v1)
        v2 == FcvtH2S(vl, v1, k.pg_h, v1)
        t2 == LsrS16(vl, t1)
        t3 == FcvtH2S(vl, t2, k.pg_h, t2)
        v3 == compute_vector(vl, c.alg, c.is_fwd, c.use_dst, v2)
        t4 == compute_vector(vl, c.alg, c.is_fwd, c.use_dst, t3)
        v4 == FcvtS2H(vl, v3, k.pg_s, v3)
        t5 == FcvtS2H(vl, t4, k.pg_s, t4)
        t6 == LslS16(vl, t5)
        v5 == OrrH(vl, v4, k.pg_h, t6)
    IN  [k EXCEPT !.vmm_src = v5, !.tmp0 = t6]

\* else { ld1w; compute_vector }
BodyF32(c, k, m) ==
    LET vl == vlen(c)
        v1 == Ld1(vl, 4, k.pg_s, m, k.reg_src.off \div 2)
    IN  [k EXCEPT !.vmm_src = compute_vector(vl, c.alg, c.is_fwd, c.use_dst, v1)]

\* the governing predicate and element size of the body's loads and store
BodyPg(c, k) == IF is_half(c) THEN k.pg_h ELSE k.pg_s
BodyEs(c) == IF is_half(c) THEN 2 ELSE 4

\* L(vectorized_loop_start): the load from reg_src and the math on registers
BodyLoad(c, k, M) ==
    LET m == M[k.reg_src.buf]
        k1 == IF c.dt = "bf16" THEN BodyBf16(c, k, m)
              ELSE IF c.dt = "f16" THEN BodyF16(c, k, m)
              ELSE BodyF32(c, k, m)
    IN  [k1 EXCEPT !.pc = IF ~is_half(c) /\ ~c.is_fwd THEN "mul" ELSE "store"]

\* if (!is_fwd) { ld1w(vmm_diff_dst, pg_s, reg_diff_dst); fmul }
BodyMul(c, k, M) ==
    LET d == Ld1(vlen(c), 4, k.pg_s, M[k.reg_diff_dst.buf], k.reg_diff_dst.off \div 2)
    IN  [k EXCEPT !.tmp0 = d, !.vmm_src = FMul(vlen(c), k.vmm_src, d), !.pc = "store"]

\* st1h / st1w to reg_dst
BodyStore(c, k, M) ==
    [M EXCEPT ![k.reg_dst.buf] =
        St1(vlen(c), BodyEs(c), BodyPg(c, k), k.vmm_src, @, k.reg_dst.off \div 2)]

\* faulty variant: reg_src is not advanced
AdvanceNoSrc(c, k) ==
    LET k1 == [k EXCEPT !.reg_dst = PtrAdd(@, vlen(c)),
                        !.reg_diff_dst = IF ~c.is_fwd THEN PtrAdd(@, vlen(c)) ELSE @,
                        !.reg_work_amount = @ - simd_w(c)]
    IN  IF k1.reg_work_amount >= simd_w(c)
        THEN [k1 EXCEPT !.pc = "load"]
        ELSE TailPredication(c, k1)

\* add_imm(reg_src ...) ... b(GE, vectorized_loop_start), then the tail
Advance(c, k) ==
    LET k1 == [k EXCEPT !.reg_src = PtrAdd(@, vlen(c)),
                        !.reg_dst = PtrAdd(@, vlen(c)),
                        !.reg_diff_dst = IF ~c.is_fwd THEN PtrAdd(@, vlen(c)) ELSE @,
                        !.reg_work_amount = @ - simd_w(c)]
    IN  IF k1.reg_work_amount >= simd_w(c)
        THEN [k1 EXCEPT !.pc = "load"]
        ELSE TailPredication(c, k1)

\* ------------------------------------------------------------ the driver
div_up(a, b) == (a + b - 1) \div b

\* balance211(n, team, tid, n_start, n_end): <<n_start, n_end>>
balance211(n, team, tid) ==
    IF team <= 1 \/ n = 0 THEN <<0, n>>
    ELSE LET n1 == div_up(n, team)
             n2 == n1 - 1
             T1 == n - n2 * team
             n_my == IF tid < T1 THEN n1 ELSE n2
             n_start == IF tid <= T1 THEN tid * n1 ELSE T1 * n1 + (tid - T1) * n2
         IN  <<n_start, n_start + n_my>>

\* const int simd_w = 64 / data_d.data_type_size();  (execute()'s grain)
grain(c) == GrainBytes \div dtype_size(c.dt)

\* faulty variant: start is not scaled from chunks to elements
RangeStartUnscaled(c, ithr) ==
    Min(c.nelems, balance211(div_up(c.nelems, grain(c)), c.nthr, ithr)[1])

\* start = nstl::min(nelems, start * simd_w);
RangeStart(c, ithr) ==
    Min(c.nelems, balance211(div_up(c.nelems, grain(c)), c.nthr, ithr)[1] * grain(c))

\* faulty variant: end is not clamped to nelems
RangeEndUnclamped(c, ithr) ==
    balance211(div_up(c.nelems, grain(c)), c.nthr, ithr)[2] * grain(c)

\* end = nstl::min(nelems, end * simd_w);
RangeEnd(c, ithr) ==
    Min(c.nelems, balance211(div_up(c.nelems, grain(c)), c.nthr, ithr)[2] * grain(c))

\* faulty variant: the partition's start is not added to the base pointer
ElemPtrBase(c, buf, i) == [buf |-> buf, off |-> c.offset0 * dtype_size(c.dt)]

\* src += data_d.offset0(); ... args.src = src + start; (byte offsets)
ElemPtr(c, buf, i) == [buf |-> buf, off |-> (c.offset0 + i) * dtype_size(c.dt)]

\* jit_args_t args of the forward lambda
FwdArgs(c, start, end) ==
    [src |-> ElemPtr(c, ValueBuf(c), start),
     dst |-> ElemPtr(c, OutBuf(c), start),
     diff_dst |-> NullPtr,
     work_amount |-> end - start]

\* faulty variant: args.diff_dst = diff_dst, without + start
BwdArgsDiffDstBase(c, start, end) ==
    [src |-> ElemPtr(c, ValueBuf(c), start),
     dst |-> ElemPtr(c, OutBuf(c), start),
     diff_dst |-> ElemPtr(c, DiffDstBuf(c), 0),
     work_amount |-> end - start]

\* jit_args_t args of the backward lambda
BwdArgs(c, start, end) ==
    [src |-> ElemPtr(c, ValueBuf(c), start),
     dst |-> ElemPtr(c, OutBuf(c), start),
     diff_dst |-> ElemPtr(c, DiffDstBuf(c), start),
     work_amount |-> end - start]

MakeArgs(c, start, end) ==
    IF c.is_fwd THEN FwdArgs(c, start, end) ELSE BwdArgs(c, start, end)

\* a thread of parallel() that has not run the lambda yet
IdleThread(c) ==
    [pc |-> "idle", start |-> 0, end |-> 0,
     args |-> [src |-> NullPtr, dst |-> NullPtr, diff_dst |-> NullPtr, work_amount |-> 0],
     reg_src |-> NullPtr, reg_dst |-> NullPtr, reg_diff_dst |-> NullPtr,
     reg_work_amount |-> 0, pg_s |-> {}, pg_h |-> {},
     vmm_src |-> [i \in HLanes(vlen(c)) |-> 0],
     tmp0 |-> [i \in HLanes(vlen(c)) |-> 0]]

\* history of a thread: kernel calls made, loop bodies and tail entries
\* executed, the element indices loaded through reg_src (ld) and
\* reg_diff_dst (ldd) and stored through reg_dst (st), whether a load touched
\* an index already stored (reload) and whether a store touched an index not
\* yet loaded (blind)
NoHist ==
    [calls |-> 0, bodies |-> 0, tails |-> 0, ld |-> {}, ldd |-> {}, st |-> {},
     reload |-> FALSE, blind |-> FALSE]

\* 1 when the kernel has just branched from the tail block into the body
TailEntered(c, k) ==
    IF k.pc = "load" /\ k.reg_work_amount < simd_w(c) THEN 1 ELSE 0

\* what the caller may have left in a Z register
JunkVals == {0, Poison}

\* parallel(0, [&](const int ithr, const int nthr) { ... }): the lambda of
\* thread ithr up to the kernel's first memory access
Lambda(t) ==
    /\ thr[t].pc = "idle"
    /\ prim.kernel_ = "ready"
    /\ LET start == RangeStart(cfg, t)
           end == RangeEnd(cfg, t)
           args == MakeArgs(cfg, start, end)
       IN  IF start = end
           THEN /\ thr' = [thr EXCEPT ![t] = [@ EXCEPT !.pc = "done",
                                                        !.start = start, !.end = end]]
                /\ hist' = hist
           ELSE \E junk \in JunkVals :
                LET k == KernelEntry(cfg, [thr[t] EXCEPT !.start = start, !.end = end,
                                                         !.args = args], args, junk)
                IN  /\ thr' = [thr EXCEPT ![t] = k]
                    /\ hist' = [hist EXCEPT ![t].calls = @ + 1,
                                            ![t].tails = @ + TailEntered(cfg, k)]
    /\ UNCHANGED <<pd, prim, cfg, mem>>

\* element index (from the buffer's start) a pointer register addresses
ElemIdx(c, p) == p.off \div dtype_size(c.dt)

\* one execution of the loop body up to the store: ld1 and the register math
Load(t) ==
    /\ thr[t].pc = "load"
    /\ LET k == thr[t]
           touched == Touched(vlen(cfg), BodyEs(cfg), BodyPg(cfg, k), ElemIdx(cfg, k.reg_src))
       IN  /\ thr' = [thr EXCEPT ![t] = BodyLoad(cfg, k, mem)]
           /\ hist' = [hist EXCEPT ![t].ld = @ \cup touched,
                                   ![t].reload = @ \/ (touched \cap hist[t].st # {})]
    /\ UNCHANGED <<pd, prim, cfg, mem>>

\* backward only: the load of diff_dst and the multiply
Mul(t) ==
    /\ thr[t].pc = "mul"
    /\ LET k == thr[t]
           touched == Touched(vlen(cfg), 4, k.pg_s, ElemIdx(cfg, k.reg_diff_dst))
       IN  /\ thr' = [thr EXCEPT ![t] = BodyMul(cfg, k, mem)]
           /\ hist' = [hist EXCEPT ![t].ldd = @ \cup touched,
                                   ![t].reload = @ \/ (touched \cap hist[t].st # {})]
    /\ UNCHANGED <<pd, prim, cfg, mem>>

\* the store, the pointer and counter updates, the loop branch and the tail
Store(t) ==
    /\ thr[t].pc = "store"
    /\ LET k == thr[t]
           touched == Touched(vlen(cfg), BodyEs(cfg), BodyPg(cfg, k), ElemIdx(cfg, k.reg_dst))
       IN  /\ mem' = BodyStore(cfg, k, mem)
           /\ thr' = [thr EXCEPT ![t] = Advance(cfg, k)]
           /\ hist' = [hist EXCEPT ![t].st = @ \cup touched,
                                   ![t].bodies = @ + 1,
                                   ![t].tails = @ + TailEntered(cfg, Advance(cfg, k)),
                                   ![t].blind = @ \/ ~(touched \subseteq hist[t].ld)
                                                  \/ (~cfg.is_fwd /\ ~(touched \subseteq hist[t].ldd))]
    /\ UNCHANGED <<pd, prim, cfg>>

\* ------------------------------------------------ the primitive descriptor
\* What pd_t::init() reads: which pd_t it is (impl_is_fwd), and the answers
\* of the framework's predicates on the descriptor under test.
\*   dense_padded = src_d.is_dense(true), dense = src_d.is_dense();
\*   a layout dense without counting padding is dense counting it.
\*   eq_data  = (src_d == dst_md)            forward
\*            = (data_d == diff_dst_md)      backward
\*   eq_diff  = (diff_src_md == diff_dst_md) backward only
PdInputs ==
    { i \in [impl_is_fwd : BOOLEAN, mayiuse : BOOLEAN, is_fwd : BOOLEAN,
             types_match : BOOLEAN, has_zero_dim_memory : BOOLEAN,
             dense_padded : BOOLEAN, dense : BOOLEAN, alg_supported : BOOLEAN,
             is_zero_preserved : BOOLEAN, attr_default : BOOLEAN,
             formats_ok : BOOLEAN, eq_data : BOOLEAN, eq_diff : BOOLEAN] :
        /\ (i.dense => i.dense_padded)
        /\ (i.impl_is_fwd => i.eq_diff) }

\* faulty variant: attr()->has_default_values() is not checked
FwdPdOkNoAttr(i) ==
    /\ i.mayiuse /\ i.is_fwd
    /\ i.types_match
    /\ ~i.has_zero_dim_memory /\ i.dense_padded
    /\ i.alg_supported
    /\ (~i.dense => i.is_zero_preserved)
    /\ i.formats_ok
    /\ i.eq_data

\* jit_uni_eltwise_fwd_t::pd_t::init
FwdPdOk(i) ==
    /\ i.mayiuse /\ i.is_fwd
    /\ i.types_match
    /\ ~i.has_zero_dim_memory /\ i.dense_padded
    /\ i.alg_supported
    /\ (~i.dense => i.is_zero_preserved)
    /\ i.attr_default /\ i.formats_ok
    /\ i.eq_data

\* faulty variant: the IMPLICATION(!data_d.is_dense(), is_zero_preserved()) is dropped
BwdPdOkNoImplication(i) ==
    /\ i.mayiuse /\ ~i.is_fwd
    /\ i.types_match
    /\ ~i.has_zero_dim_memory /\ i.formats_ok
    /\ i.dense_padded
    /\ i.alg_supported
    /\ i.eq_data
    /\ i.eq_diff
    /\ i.attr_default

\* jit_uni_eltwise_bwd_t::pd_t::init
BwdPdOk(i) ==
    /\ i.mayiuse /\ ~i.is_fwd
    /\ i.types_match
    /\ ~i.has_zero_dim_memory /\ i.formats_ok
    /\ i.dense_padded
    /\ i.alg_supported
    /\ (~i.dense => i.is_zero_preserved)
    /\ i.eq_data
    /\ i.eq_diff
    /\ i.attr_default

PdStatus(ok) == IF ok THEN "success" ELSE "unimplemented"

FwdPdInit ==
    /\ pd.status = "none" /\ pd.in.impl_is_fwd
    /\ pd' = [pd EXCEPT !.status = PdStatus(FwdPdOk(pd.in))]
    /\ UNCHANGED <<prim, cfg, mem, thr, hist>>

BwdPdInit ==
    /\ pd.status = "none" /\ ~pd.in.impl_is_fwd
    /\ pd' = [pd EXCEPT !.status = PdStatus(BwdPdOk(pd.in))]
    /\ UNCHANGED <<prim, cfg, mem, thr, hist>>

\* --------------------------------------------------------- the primitive
\* CHECK(safe_ptr_assign(kernel_, new jit_uni_kernel_t<isa>(pd())));
\* return kernel_->create_kernel();
\*   allocated: new returned an object; created: create_kernel()'s status.
\* kernel_ is "null", "no_code" (an object whose code was not generated) or
\* "ready".
InitKernel(allocated, created) ==
    IF ~allocated THEN "null"
    ELSE IF created = "success" THEN "ready" ELSE "no_code"

\* faulty variant: create_kernel()'s status is dropped
InitStatusIgnoreCreate(allocated, created) ==
    IF ~allocated THEN "out_of_memory" ELSE "success"

InitStatus(allocated, created) ==
    IF ~allocated THEN "out_of_memory" ELSE created

CreateStatuses == {"success", "out_of_memory", "runtime_error"}

\* jit_uni_eltwise_{fwd,bwd}_t::init, on a primitive made from a supported pd
PrimInit ==
    /\ pd.status = "success" /\ prim.status = "none"
    /\ \E allocated \in BOOLEAN, created \in CreateStatuses :
          prim' = [kernel_ |-> InitKernel(allocated, created),
                   status |-> InitStatus(allocated, created),
                   allocated |-> allocated, created |-> created]
    /\ UNCHANGED <<pd, cfg, mem, thr, hist>>

\* ------------------------------------------------------ specifications
\* the descriptor a configuration of execute() was created from
GoodPdIn(c) ==
    [impl_is_fwd |-> c.is_fwd, mayiuse |-> TRUE, is_fwd |-> c.is_fwd,
     types_match |-> TRUE, has_zero_dim_memory |-> FALSE,
     dense_padded |-> TRUE, dense |-> TRUE, alg_supported |-> TRUE,
     is_zero_preserved |-> (c.alg = "eltwise_relu"), attr_default |-> TRUE,
     formats_ok |-> TRUE, eq_data |-> TRUE, eq_diff |-> TRUE]

Configs ==
    { c \in [is_fwd : BOOLEAN, dt : {"f32", "bf16", "f16"}, use_dst : BOOLEAN,
             alg : Algs, alias : BOOLEAN, nelems : 0..MaxNelems,
             nthr : 1..MaxThr, vlen : Vlens, offset0 : 0..MaxOffset0] :
        /\ [is_fwd |-> c.is_fwd, dt |-> c.dt] \in Instances
        /\ (c.is_fwd => ~c.use_dst)
        \* one base offset per element count: both vary together so that the
        \* configurations stay enumerable
        /\ c.offset0 = c.nelems % (MaxOffset0 + 1) }

\* execute() is entered on an initialised primitive
Init ==
    /\ cfg \in Configs
    /\ pd = [in |-> GoodPdIn(cfg), status |-> "success"]
    /\ prim = [kernel_ |-> "ready", status |-> "success",
               allocated |-> TRUE, created |-> "success"]
    /\ mem = InitMem(cfg)
    /\ thr = [t \in Threads |-> IdleThread(cfg)]
    /\ hist = [t \in Threads |-> NoHist]

Next ==
    \/ \E t \in Threads : Lambda(t)
    \/ \E t \in Threads : Load(t)
    \/ \E t \in Threads : Mul(t)
    \/ \E t \in Threads : Store(t)

Spec == Init /\ [][Next]_vars

\* a descriptor under test, before pd_t::init() and the primitive's init()
IdleConfig ==
    [is_fwd |-> TRUE, dt |-> "f32", use_dst |-> FALSE, alg |-> "eltwise_relu",
     alias |-> FALSE, nelems |-> 0, nthr |-> 1, vlen |-> MinVlen, offset0 |-> 0]

InitPd ==
    /\ pd \in { [in |-> i, status |-> "none"] : i \in PdInputs }
    /\ prim = [kernel_ |-> "null", status |-> "none",
               allocated |-> FALSE, created |-> "none"]
    /\ cfg = IdleConfig
    /\ mem = InitMem(cfg)
    /\ thr = [t \in Threads |-> IdleThread(cfg)]
    /\ hist = [t \in Threads |-> NoHist]

NextPd == FwdPdInit \/ BwdPdInit \/ PrimInit

SpecPd == InitPd /\ [][NextPd]_vars

\* void operator()(jit_args_t *p): the kernel called directly on a record
\* whose work_amount is any count >= 0
Call(t) ==
    /\ thr[t].pc = "call"
    /\ prim.kernel_ = "ready"
    /\ \E junk \in JunkVals :
          LET k == KernelEntry(cfg, thr[t], thr[t].args, junk)
          IN  /\ thr' = [thr EXCEPT ![t] = k]
              /\ hist' = [hist EXCEPT ![t].calls = @ + 1,
                                      ![t].tails = @ + TailEntered(cfg, k)]
    /\ UNCHANGED <<pd, prim, cfg, mem>>

InitCall ==
    /\ cfg \in { c \in Configs : c.nthr = 1 }
    /\ pd = [in |-> GoodPdIn(cfg), status |-> "success"]
    /\ prim = [kernel_ |-> "ready", status |-> "success",
               allocated |-> TRUE, created |-> "success"]
    /\ mem = InitMem(cfg)
    /\ thr = [t \in Threads |->
                [IdleThread(cfg) EXCEPT !.pc = "call", !.end = cfg.nelems,
                                        !.args = MakeArgs(cfg, 0, cfg.nelems)]]
    /\ hist = [t \in Threads |-> NoHist]

NextCall ==
    \/ \E t \in Threads : Call(t)
    \/ \E t \in Threads : Load(t)
    \/ \E t \in Threads : Mul(t)
    \/ \E t \in Threads : Store(t)

SpecKernel == InitCall /\ [][NextCall]_vars

AllDone == \A t \in Threads : thr[t].pc = "done"


\* ------------------------------------------------------- reference values
\* element i of an input tensor as the caller filled it
InputElem(c, buf, i) ==
    IF c.dt = "f32"
    THEN <<InputHw(buf, 2 * (c.offset0 + i)), InputHw(buf, 2 * (c.offset0 + i) + 1)>>
    ELSE InputHw(buf, c.offset0 + i)

\* the reference scalar function on one stored element: F32 directly, BF16
\* and F16 computed in F32 and rounded back to the storage width
RefScalar(c, x) ==
    IF c.dt = "f32" THEN InjScalar(c.alg, c.is_fwd, c.use_dst, x)
    ELSE IF c.dt = "bf16" THEN BfRound(InjScalar(c.alg, c.is_fwd, c.use_dst, <<0, x>>))
    ELSE S2H(InjScalar(c.alg, c.is_fwd, c.use_dst, H2S(x)))

\* the reference output element i: f(src[i]) forward, d(x[i]) * diff_dst[i]
\* backward
RefElem(c, i) ==
    IF c.is_fwd THEN RefScalar(c, InputElem(c, ValueBuf(c), i))
    ELSE FMulScalar(RefScalar(c, InputElem(c, ValueBuf(c), i)),
                    InputElem(c, DiffDstBuf(c), i))

\* the element indices (from the buffer's start) of a thread's partition
Partition(t) == { cfg.offset0 + i : i \in thr[t].start..(thr[t].end - 1) }

\* the element indices (from the buffer's start) a kernel call may touch:
\* work_amount elements from its argument pointers on
CallRange(t) ==
    { ElemIdx(cfg, thr[t].args.dst) + i : i \in 0..(thr[t].args.work_amount - 1) }

Started(t) == thr[t].pc # "idle"

\* ----------------------------------------------------------------- claims

\* C1: the ranges [start, end) the worker threads compute are pairwise
\* disjoint and their union is exactly [0, nelems); the kernel is called
\* exactly once for each non-empty range and never for an empty one.  The
\* last conjunct states the partition for every team size up to MaxTeam,
\* beyond the thread counts the runs are made with; the ranges depend on
\* nelems and the element size only, so it is evaluated once for each.
C1_DisjointCover ==
    /\ \A t \in Threads : Started(t) =>
          /\ 0 <= thr[t].start /\ thr[t].start <= thr[t].end /\ thr[t].end <= cfg.nelems
          /\ hist[t].calls = (IF thr[t].start < thr[t].end THEN 1 ELSE 0)
    /\ \A t \in Threads : ~Started(t) => hist[t].calls = 0
    /\ \A t, u \in Threads : (t # u /\ Started(t) /\ Started(u)) =>
          (thr[t].start..(thr[t].end - 1)) \cap (thr[u].start..(thr[u].end - 1)) = {}
    /\ AllDone =>
          UNION { thr[t].start..(thr[t].end - 1) : t \in Threads } = 0..(cfg.nelems - 1)
    /\ (cfg.nthr = 1 /\ ~Started(0) /\ cfg.vlen = MinVlen /\ ~cfg.alias
        /\ cfg.alg = "eltwise_relu") =>
          \A team \in 1..MaxTeam :
              LET c == [cfg EXCEPT !.nthr = team]
                  r == [t \in 0..(team - 1) |-> <<RangeStart(c, t), RangeEnd(c, t)>>]
                  In(i, t) == r[t][1] <= i /\ i < r[t][2]
              IN  /\ \A t \in 0..(team - 1) :
                        0 <= r[t][1] /\ r[t][1] <= r[t][2] /\ r[t][2] <= c.nelems
                  /\ \A i \in 0..(c.nelems - 1) :
                        Cardinality({ t \in 0..(team - 1) : In(i, t) }) = 1

\* C1 witness: two threads with non-empty ranges, the last one clamped to
\* nelems, both kernels run to the end
C1_Witness ==
    /\ AllDone /\ cfg.nthr >= 2
    /\ cfg.nelems % grain(cfg) # 0
    /\ \A t \in {0, 1} : thr[t].start < thr[t].end /\ hist[t].calls = 1

\* C2: in a kernel call whose work_amount N is not a multiple of SIMD_W the
\* last N mod SIMD_W output elements equal the reference values, and at no
\* time of the call has a store touched an element outside [0, N-1] of dst.
C2_TailInBounds ==
    \A t \in Threads :
        LET N == thr[t].args.work_amount
            S == simd_w(cfg)
        IN  /\ hist[t].st \subseteq CallRange(t)
            /\ (thr[t].pc = "done" /\ N % S # 0) =>
                  \A j \in (N - (N % S))..(N - 1) :
                      Elem(cfg, mem[OutBuf(cfg)], thr[t].start + j)
                          = RefElem(cfg, thr[t].start + j)

\* C2 witness: a finished call that ran bulk iterations and then the tail
C2_Witness ==
    \E t \in Threads :
        /\ thr[t].pc = "done"
        /\ thr[t].args.work_amount % simd_w(cfg) # 0
        /\ thr[t].args.work_amount > simd_w(cfg)
        /\ hist[t].tails = 1 /\ hist[t].bodies >= 2
        /\ is_half(cfg)


\* a whole kernel call run alone, from the state k of its registers, on the
\* tensors M: the tensors when it returns
RECURSIVE RunKernel(_, _, _)
RunKernel(c, k, M) ==
    IF k.pc = "load" THEN RunKernel(c, BodyLoad(c, k, M), M)
    ELSE IF k.pc = "mul" THEN RunKernel(c, BodyMul(c, k, M), M)
    ELSE IF k.pc = "store" THEN RunKernel(c, Advance(c, k), BodyStore(c, k, M))
    ELSE M

\* the output tensor of one kernel call with work_amount = nelems on the
\* tensors as the caller filled them
SingleCall(c) ==
    RunKernel(c, KernelEntry(c, IdleThread(c), MakeArgs(c, 0, c.nelems), 0),
              InitMem(c))[OutBuf(c)]

C4_ForwardFidelity ==
    (AllDone /\ cfg.is_fwd) =>
        \A i \in 0..(cfg.nelems - 1) :
            Elem(cfg, mem[OutBuf(cfg)], i) = RefElem(cfg, i)

\* C4 witness: a finished forward BF16 run with bulk iterations and a tail
\* of odd length
C4_Witness ==
    /\ AllDone /\ cfg.is_fwd /\ cfg.dt = "bf16"
    /\ cfg.nelems > simd_w(cfg) /\ cfg.nelems % 2 = 1
    /\ hist[0].tails = 1

\* C5: backward F32: every output element is d(x[i]) * diff_dst[i], x being
\* SRC when use_dst is false and DST when it is true; the value argument
\* and diff_dst are read at the element indices at which diff_src is
\* written, in every thread's partition.
C5_BackwardChainRule ==
    ~cfg.is_fwd =>
        /\ \A t \in Threads :
              /\ hist[t].st \subseteq hist[t].ldd /\ hist[t].ldd \subseteq hist[t].ld
              /\ thr[t].pc \in {"load", "done"} =>
                    (hist[t].ld = hist[t].st /\ hist[t].ldd = hist[t].st)
              /\ thr[t].pc = "done" => hist[t].st = Partition(t)
        /\ AllDone =>
              \A i \in 0..(cfg.nelems - 1) :
                  Elem(cfg, mem[OutBuf(cfg)], i)
                      = FMulScalar(
                            InjScalar(cfg.alg, FALSE, cfg.use_dst,
                                InputElem(cfg, IF cfg.use_dst THEN "DST" ELSE "SRC", i)),
                            InputElem(cfg, "DIFF_DST", i))

\* C5 witness: a finished backward run with use_dst on two partitions
C5_Witness ==
    /\ AllDone /\ ~cfg.is_fwd /\ cfg.use_dst /\ cfg.nthr >= 2
    /\ \A t \in {0, 1} : hist[t].calls = 1
    /\ cfg.nelems % simd_w(cfg) # 0

\* C6: with the output aliasing the input (dst = src forward, diff_src =
\* diff_dst backward) the outputs are identical to those of the non-aliased
\* run; no load touches an index already stored, no store an index not yet
\* loaded, and a thread touches only indices of its own partition.
C6_InPlaceSafe ==
    /\ \A t \in Threads :
          /\ ~hist[t].reload /\ ~hist[t].blind
          /\ (hist[t].ld \cup hist[t].ldd \cup hist[t].st) \subseteq Partition(t)
    /\ (AllDone /\ cfg.alias) =>
          LET plain == [cfg EXCEPT !.alias = FALSE]
              ref == SingleCall(plain)
          IN  \A i \in 0..(cfg.nelems - 1) :
                  Elem(cfg, mem[OutBuf(cfg)], i) = Elem(plain, ref, i)

\* C6 witness: a finished in-place run on two partitions
C6_Witness ==
    /\ AllDone /\ cfg.alias /\ cfg.nthr >= 2
    /\ \A t \in {0, 1} : hist[t].calls = 1 /\ hist[t].bodies >= 2


\* the eight conditions as listed for pd_t::init(), condition 5 read as
\* "the layout is dense, or the algorithm preserves zeros"
ListedConditions(i) ==
    /\ i.mayiuse
    /\ (i.is_fwd = i.impl_is_fwd)
    /\ i.types_match
    /\ ~i.has_zero_dim_memory
    /\ (i.dense \/ i.is_zero_preserved)
    /\ i.alg_supported
    /\ i.attr_default
    /\ i.eq_data /\ i.eq_diff

PdDone == pd.status # "none"

\* C7 as stated: init() returns success if and only if the eight listed
\* conditions hold, and unimplemented otherwise.
C7_AsStated ==
    PdDone => /\ pd.status \in {"success", "unimplemented"}
              /\ (pd.status = "success") = ListedConditions(pd.in)

\* C7 as amended: init() returns success if and only if the listed
\* conditions hold with condition 5 read as "the layout is dense when its
\* padding is counted and, if it is not dense without the padding, the
\* algorithm preserves zeros", and set_default_formats_common() succeeds;
\* in every other case it returns unimplemented.
C7_Amended ==
    PdDone => /\ pd.status \in {"success", "unimplemented"}
              /\ (pd.status = "success") =
                    (/\ pd.in.mayiuse
                     /\ (pd.in.is_fwd = pd.in.impl_is_fwd)
                     /\ pd.in.types_match
                     /\ ~pd.in.has_zero_dim_memory
                     /\ pd.in.dense_padded
                     /\ (pd.in.dense \/ pd.in.is_zero_preserved)
                     /\ pd.in.alg_supported
                     /\ pd.in.attr_default
                     /\ pd.in.formats_ok
                     /\ pd.in.eq_data /\ pd.in.eq_diff)

\* C7 witness: init() has accepted a padded (not dense) layout for a
\* zero-preserving algorithm
C7_Witness ==
    /\ pd.status = "success"
    /\ ~pd.in.dense /\ pd.in.dense_padded /\ pd.in.is_zero_preserved

\* C8: init() never succeeds, and no kernel is ever built, for a layout
\* that is not dense with an algorithm that is not zero-preserving.
C8_NonDenseRefused ==
    (~pd.in.dense /\ ~pd.in.is_zero_preserved) =>
        /\ PdDone => pd.status = "unimplemented"
        /\ prim.kernel_ = "null" /\ prim.status = "none"

\* C8 witness: a padded layout and an algorithm that does not preserve
\* zeros, every other condition met, was refused
C8_Witness ==
    /\ pd.status = "unimplemented"
    /\ ~pd.in.dense /\ pd.in.dense_padded /\ ~pd.in.is_zero_preserved
    /\ pd.in.mayiuse /\ (pd.in.is_fwd = pd.in.impl_is_fwd) /\ pd.in.types_match
    /\ ~pd.in.has_zero_dim_memory /\ pd.in.alg_supported /\ pd.in.attr_default
    /\ pd.in.formats_ok /\ pd.in.eq_data /\ pd.in.eq_diff

PrimDone == prim.status # "none"

\* C9: the primitive's init() returns success only when the kernel object
\* was allocated and create_kernel() succeeded; an allocation failure or a
\* create_kernel() failure is returned as init()'s status and leaves the
\* primitive without a usable kernel_.
C9_InitErrorPropagated ==
    PrimDone =>
        /\ (prim.status = "success") = (prim.allocated /\ prim.created = "success")
        /\ (prim.status = "success") = (prim.kernel_ = "ready")
        /\ ~prim.allocated => (prim.status = "out_of_memory" /\ prim.kernel_ = "null")
        /\ (prim.allocated /\ prim.created # "success") => prim.status = prim.created

\* C9 witness: create_kernel() failed after the kernel object was allocated
C9_Witness ==
    /\ prim.allocated /\ prim.created = "runtime_error"
    /\ prim.status = "runtime_error" /\ prim.kernel_ = "no_code"

\* C10: a kernel call with work_amount W returns after executing the loop
\* body exactly ceil(W / SIMD_W) times: floor(W / SIMD_W) bulk iterations
\* and, if W mod SIMD_W # 0, exactly one tail iteration, after which the
\* counter is below zero; for W = 0 the body is not executed and no memory
\* is accessed.
C10_BodyCount ==
    \A t \in Threads :
        LET W == thr[t].args.work_amount
            S == simd_w(cfg)
        IN  /\ hist[t].bodies <= div_up(W, S)
            /\ hist[t].tails <= (IF W % S # 0 THEN 1 ELSE 0)
            /\ (thr[t].pc \in {"load", "mul", "store"}) => hist[t].bodies < div_up(W, S)
            /\ (hist[t].calls = 1 /\ W = 0) =>
                  (thr[t].pc = "done" /\ hist[t].ld = {} /\ hist[t].ldd = {}
                   /\ hist[t].st = {} /\ mem = InitMem(cfg))
            /\ (hist[t].calls = 1 /\ thr[t].pc = "done") =>
                  /\ hist[t].bodies = div_up(W, S)
                  /\ hist[t].tails = (IF W % S # 0 THEN 1 ELSE 0)
                  /\ hist[t].bodies - hist[t].tails = W \div S
                  /\ (W % S # 0) => thr[t].reg_work_amount < 0
                  /\ (W % S = 0) => thr[t].reg_work_amount = 0

\* C10 witness: a call that has returned after bulk iterations and a tail
C10_Witness ==
    \E t \in Threads :
        /\ thr[t].pc = "done" /\ hist[t].calls = 1
        /\ hist[t].tails = 1 /\ hist[t].bodies >= 3
        /\ thr[t].reg_work_amount < 0

\* the 32-bit lanes and the half-width lanes of a Z register
SLanes(c) == 0..(vlen(c) \div 4 - 1)
InBody(k) == k.pc \in {"load", "mul", "store"}

\* C11: in every kernel call pg_s and pg_h are all-true during every
\* execution of the loop body that is a bulk iteration (remaining
\* work_amount >= SIMD_W); they are narrowed at most once per call, only at
\* tail entry with 0 < work_amount < SIMD_W, to exactly the lanes below
\* work_amount (of the lanes the register has; pg_h only for BF16 / F16,
\* otherwise it stays all-true); no bulk iteration runs with a narrowed
\* predicate, and a call without a tail returns with both all-true.
C11_PredicatesAllTrueInBulk ==
    \A t \in Threads :
        LET k == thr[t]
            r == k.reg_work_amount
            AllTrue == /\ \A i \in SLanes(cfg) : Active(k.pg_s, 4, i)
                       /\ \A i \in HLanes(vlen(cfg)) : Active(k.pg_h, 2, i)
        IN  /\ hist[t].tails <= 1
            /\ (InBody(k) /\ r >= simd_w(cfg)) => (AllTrue /\ hist[t].tails = 0)
            /\ (InBody(k) /\ hist[t].tails = 0) => (AllTrue /\ r >= simd_w(cfg))
            /\ (InBody(k) /\ r < simd_w(cfg)) =>
                  /\ 0 < r /\ hist[t].tails = 1
                  /\ \A i \in SLanes(cfg) : Active(k.pg_s, 4, i) <=> i < r
                  /\ \A i \in HLanes(vlen(cfg)) :
                        Active(k.pg_h, 2, i) <=> (is_half(cfg) => i < r)
            /\ (k.pc = "done" /\ hist[t].calls = 1 /\ hist[t].tails = 0) => AllTrue

\* C11 witness: a BF16 / F16 call is in its tail iteration after bulk
\* iterations, pg_h narrowed to the remaining lanes
C11_Witness ==
    \E t \in Threads :
        /\ is_half(cfg) /\ thr[t].pc = "store"
        /\ hist[t].bodies >= 1 /\ hist[t].tails = 1
        /\ thr[t].reg_work_amount \in 1..(simd_w(cfg) - 1)
        /\ ~Active(thr[t].pg_h, 2, thr[t].reg_work_amount)
        /\ Active(thr[t].pg_h, 2, thr[t].reg_work_amount - 1)

\* the element (from the tensor's offset0) a pointer of an Args record
\* addresses, -1 if it is not the address of an element of buffer buf
ArgElem(c, p, buf) ==
    IF p.buf = buf /\ p.off % dtype_size(c.dt) = 0
    THEN ElemIdx(c, p) - c.offset0 ELSE 0 - 1

\* C12: for every Args record the driver passes to the kernel (forward and
\* backward, any nelems and nthr): start is a multiple of G = 64 /
\* sizeof(ElemT), end is at most nelems, 0 < work_amount = end - start <=
\* nelems - start, so work_amount elements from each pointer stay inside the
\* tensor, and src, dst and (backward) diff_dst all address element start.
C12_ArgsRecord ==
    \A t \in Threads :
        hist[t].calls = 1 =>
            LET a == thr[t].args
                start == thr[t].start
                end == thr[t].end
            IN  /\ start % (GrainBytes \div dtype_size(cfg.dt)) = 0
                /\ 0 <= start /\ end <= cfg.nelems
                /\ a.work_amount = end - start
                /\ 0 < a.work_amount /\ a.work_amount <= cfg.nelems - start
                /\ ArgElem(cfg, a.src, ValueBuf(cfg)) = start
                /\ ArgElem(cfg, a.dst, OutBuf(cfg)) = start
                /\ ~cfg.is_fwd => ArgElem(cfg, a.diff_dst, DiffDstBuf(cfg)) = start
                /\ (ElemIdx(cfg, a.src) + a.work_amount) * dtype_size(cfg.dt)
                      <= 2 * HwLen(mem[a.src.buf])
                /\ (ElemIdx(cfg, a.dst) + a.work_amount) * dtype_size(cfg.dt)
                      <= 2 * HwLen(mem[a.dst.buf])
                /\ ~cfg.is_fwd =>
                      (ElemIdx(cfg, a.diff_dst) + a.work_amount) * dtype_size(cfg.dt)
                          <= 2 * HwLen(mem[a.diff_dst.buf])

\* C12 witness: both threads of a backward call got a record, the second
\* one starting at a later chunk and ending at a clamped end
C12_Witness ==
    /\ ~cfg.is_fwd /\ cfg.nthr = 2 /\ cfg.offset0 > 0
    /\ hist[0].calls = 1 /\ hist[1].calls = 1
    /\ thr[1].start > 0 /\ thr[1].end = cfg.nelems
    /\ cfg.nelems % (GrainBytes \div dtype_size(cfg.dt)) # 0

\* bytes a pointer register has moved from the record's pointer
Moved(reg, arg) == IF reg.buf = arg.buf THEN reg.off - arg.off ELSE 0 - 1

\* C13: each execution of the loop body advances src, dst and (backward
\* only) diff_dst by exactly VLEN bytes = SIMD_W * sizeof(ElemT) and
\* decrements work_amount by SIMD_W, so at every entry to the loop body (bulk
\* or tail), during the body and at return, all pointers are at the same byte
\* offset from their initial values, and that offset is (initial work_amount
\* - current work_amount) * sizeof(ElemT).
C13_PointerAdvance ==
    \A t \in Threads :
        LET k == thr[t]
            a == k.args
            sz == dtype_size(cfg.dt)
            n == hist[t].bodies
        IN  (hist[t].calls = 1 /\ (InBody(k) \/ k.pc = "done")) =>
                /\ vlen(cfg) = simd_w(cfg) * sz
                /\ k.reg_work_amount = a.work_amount - n * (vlen(cfg) \div sz)
                /\ Moved(k.reg_src, a.src) = n * vlen(cfg)
                /\ Moved(k.reg_dst, a.dst) = n * vlen(cfg)
                /\ ~cfg.is_fwd => Moved(k.reg_diff_dst, a.diff_dst) = n * vlen(cfg)
                /\ Moved(k.reg_src, a.src) = (a.work_amount - k.reg_work_amount) * sz
                /\ Moved(k.reg_dst, a.dst) = Moved(k.reg_src, a.src)

\* C13 witness: a backward call enters its tail iteration after two bulk
\* iterations, all three pointers moved by two vectors
C13_Witness ==
    \E t \in Threads :
        /\ ~cfg.is_fwd /\ thr[t].pc = "load" /\ hist[t].bodies = 2
        /\ hist[t].tails = 1
        /\ Moved(thr[t].reg_diff_dst, thr[t].args.diff_dst) = 2 * vlen(cfg)
        /\ Moved(thr[t].reg_src, thr[t].args.src) = 2 * vlen(cfg)

\* reg_diff_dst of a kernel that has not executed ldr(reg_diff_dst, ...)
UnsetReg == [buf |-> "UNSET", off |-> 0]

\* C14: in the forward direction the kernel never reads the diff_dst field
\* of the argument record (reg_diff_dst is never loaded), never dereferences
\* a diff_dst pointer (the backward load-and-multiply step is never reached,
\* nothing is loaded through reg_diff_dst, the DIFF_DST buffer is never
\* written) and never advances one, for every element type and every
\* work_amount; the driver's forward record carries diff_dst = null.
C14_ForwardNoDiffDst ==
    cfg.is_fwd =>
        \A t \in Threads :
            /\ thr[t].pc # "mul"
            /\ hist[t].ldd = {}
            /\ hist[t].calls = 1 =>
                  /\ thr[t].args.diff_dst = NullPtr
                  /\ thr[t].reg_diff_dst = UnsetReg
                  /\ thr[t].reg_src.buf # NullPtr.buf
                  /\ thr[t].reg_dst.buf # NullPtr.buf
            /\ mem["DIFF_DST"] = InitMem(cfg)["DIFF_DST"]
            /\ mem["DIFF_SRC"] = InitMem(cfg)["DIFF_SRC"]

\* C14 witness: a forward BF16 / F16 call has returned after bulk iterations
\* and a tail, its pointers advanced
C14_Witness ==
    \E t \in Threads :
        /\ cfg.is_fwd /\ is_half(cfg) /\ thr[t].pc = "done"
        /\ hist[t].calls = 1 /\ hist[t].bodies >= 2 /\ hist[t].tails = 1
        /\ thr[t].reg_src.off > thr[t].args.src.off
        /\ thr[t].args.diff_dst = NullPtr

\* C15: in the BF16 and F16 tail iteration with 0 < work_amount = r <
\* SIMD_W, pg_h is narrowed to the half-width lanes 0..r-1 and pg_s to the
\* 32-bit lanes 0..min(r, SIMD_W/2)-1; every 32-bit lane that contains an
\* active half-width lane (lanes 0..ceil(r/2)-1) is active in pg_s, and
\* before the store every half-width lane the store writes holds the
\* function of the input element loaded for that lane, whatever vmm_src and
\* tmp0 held when the kernel was entered.
C15_TailLanesCovered ==
    \A t \in Threads :
        LET k == thr[t]
            r == k.reg_work_amount
            S == simd_w(cfg)
            e0 == ElemIdx(cfg, k.reg_src) - cfg.offset0
        IN  (is_half(cfg) /\ InBody(k) /\ r < S) =>
                /\ 0 < r
                /\ \A i \in HLanes(vlen(cfg)) : Active(k.pg_h, 2, i) <=> i < r
                /\ \A j \in SLanes(cfg) :
                      Active(k.pg_s, 4, j) <=> j < Min(r, S \div 2)
                /\ \A i \in HLanes(vlen(cfg)) :
                      Active(k.pg_h, 2, i) => Active(k.pg_s, 4, i \div 2)
                /\ \A j \in SLanes(cfg) :
                      (j < div_up(r, 2)) <=>
                          (Active(k.pg_h, 2, 2 * j) \/ Active(k.pg_h, 2, 2 * j + 1))
                /\ k.pc = "store" =>
                      \A i \in HLanes(vlen(cfg)) :
                          Active(k.pg_h, 2, i) =>
                              k.vmm_src[i] =
                                  RefScalar(cfg, Elem(cfg, mem[k.reg_src.buf], e0 + i))

\* C15 witness: a tail iteration with an odd count is about to store, vmm_src
\* and tmp0 having been entered with a non-zero stale pattern
C15_Witness ==
    \E t \in Threads :
        /\ is_half(cfg) /\ thr[t].pc = "store" /\ hist[t].tails = 1
        /\ thr[t].reg_work_amount % 2 = 1
        /\ thr[t].reg_work_amount \in 3..(simd_w(cfg) - 1)
        /\ hist[t].bodies = 0
        /\ \E i \in HLanes(vlen(cfg)) : thr[t].tmp0[i] = Poison

====
